---- MODULE Spec2Model ----
(***************************************************************************)
(* Model of the agentic query-routing core of voice-rag-okada:             *)
(*   backend/main.py       row-store (SQLite) agent loop and run_sql       *)
(*   backend/main_kuzu.py  graph-store (Kuzu) agent loop and dispatcher    *)
(*   backend/app.py        chat_with_llm, the response aggregator          *)
(* The language model, the embedding provider and the two stores are the   *)
(* environment: every answer they give and every failure they can raise is *)
(* a nondeterministic input.  The LangGraph runner is modelled by the      *)
(* contract the code relies on: one super-step per node execution and      *)
(* GraphRecursionError once recursion_limit super-steps have run without   *)
(* the graph reaching END.                                                 *)
(***************************************************************************)
EXTENDS Integers, Sequences, FiniteSets, TLC

VARIABLES
    pc,              \* position of chat_with_llm (or "tool" in ToolSpec)
    conversation,    \* the dicts of request.conversation still to be read
    new_message,     \* request.new_message
    messages,        \* the list built at app.py:118-123
    run,             \* the agent-loop execution in progress (LangGraph run)
    act,             \* frame of the tool invocation made by the last Act
    kuzu_response,   \* app.py:132
    sqlite_response, \* app.py:141
    reconcile_calls, \* number of llm.invoke calls made at app.py:144
    response         \* what chat_with_llm returns

vars == <<pc, conversation, new_message, messages, run, act,
          kuzu_response, sqlite_response, reconcile_calls, response>>

---------------------------------------------------------------------------
(* Bounds of the model *)

MaxConv == 2        \* longest request.conversation
MaxRichTrips == 1   \* leading round-trips of a loop execution in which the
                    \* model and the tool may give any of their answers
MaxCand == 2        \* most rows of the address/embedding table
MaxComp == 2        \* largest embedding component (smallest is -1)

(* Program constants *)

StreamLimit == 10   \* {'recursion_limit': 10}
DefaultLimit == 25  \* invoke() without a config: LangGraph's default limit

---------------------------------------------------------------------------
(* Python values *)

None == [kind |-> "none", text |-> "None"]
StrVal(s) == [kind |-> "str", text |-> s]
Rows(s) == [kind |-> "rows", text |-> s]

\* str(result) at main.py:107 / main_kuzu.py:145
PyStr(v) ==
    CASE v.kind = "none" -> "None"
      [] v.kind = "rows" -> "[" \o v.text \o "]"
      [] OTHER -> v.text

\* one exception text stands for every detail the environment can raise with
Exc == "boom"

Outcome(raised, exc, result, llm, sq, emb, sch, op, cl, best) ==
    [raised |-> raised, exc |-> exc, result |-> result,
     llmCalls |-> llm, storeQueries |-> sq, embedCalls |-> emb,
     schemaCalls |-> sch, opened |-> op, closed |-> cl, best |-> best]

---------------------------------------------------------------------------
(* Similarity Resolver: main_kuzu.py:77-82 *)

Dot(u, v) == u[1] * v[1] + u[2] * v[2]
NormSq(u) == Dot(u, u)

\* similarities[i] = dot(e_i, q) / (||e_i|| * ||q||), kept exactly as the
\* pair (num, den2) standing for num / sqrt(den2), den2 > 0.  Embeddings are
\* non-zero vectors (the provider returns unit vectors), so den2 > 0 and no
\* NaN arises; the order is that of exact arithmetic.
Similarity(e, q) == [num |-> Dot(e, q), den2 |-> NormSq(e) * NormSq(q)]

Similarities(table, q) ==
    [i \in 1..Len(table) |-> Similarity(table[i].emb, q)]

\* s > t for two such quotients
SimGt(s, t) ==
    IF s.num >= 0
    THEN IF t.num < 0 THEN TRUE
         ELSE s.num * s.num * t.den2 > t.num * t.num * s.den2
    ELSE IF t.num >= 0 THEN FALSE
         ELSE s.num * s.num * t.den2 < t.num * t.num * s.den2

RECURSIVE ArgmaxScan(_, _, _)
ArgmaxScan(s, i, best) ==
    IF i > Len(s) THEN best
    ELSE ArgmaxScan(s, i + 1, IF SimGt(s[i], s[best]) THEN i ELSE best)

RECURSIVE ArgmaxScanLast(_, _, _)
ArgmaxScanLast(s, i, best) ==
    IF i > Len(s) THEN best
    ELSE ArgmaxScanLast(s, i + 1, IF SimGt(s[best], s[i]) THEN best ELSE i)

\* a scan that keeps the later of two equal scores
np_argmax_last(s) == ArgmaxScanLast(s, 2, 1)

\* np.argmax: index (1-based here) of the first maximal element
np_argmax(s) == ArgmaxScan(s, 2, 1)

---------------------------------------------------------------------------
(* Schema Introspector *)

\* main_kuzu.py:24-43: opens a Database and a Connection, never closes them;
\* no try/except: any failure of the store is raised to the caller
kuzu_get_db_schema(fails) ==
    IF fails
    THEN Outcome(TRUE, Exc, None, 0, 0, 0, 1, 0, 0, 0)
    ELSE Outcome(FALSE, "", StrVal("Kuzu Graph Database Schema"),
                 0, 0, 0, 1, 1, 0, 0)

\* main.py:18-37: connect, read sqlite_master, close; no try/except
sqlite_get_db_schema(fails) ==
    IF fails
    THEN Outcome(TRUE, Exc, None, 0, 0, 0, 1, 1, 0, 0)
    ELSE Outcome(FALSE, "", StrVal("Database schema"), 0, 1, 0, 1, 1, 1, 0)

---------------------------------------------------------------------------
(* Structured-Query Executor: main.py:39-58 *)

Queries == {"SELECT", "UPDATE", "BAD"}
SqlFails == {"none", "connect", "execute", "fetch", "commit", "close"}

\* the statements of the try block, main.py:46-56
run_sql_try(env) ==
    IF env.fail = "connect"
    THEN Outcome(TRUE, Exc, None, 0, 0, 0, 0, 0, 0, 0)
    ELSE IF env.fail = "execute" \/ env.query = "BAD"
    THEN Outcome(TRUE, Exc, None, 0, 1, 0, 0, 1, 0, 0)
    ELSE IF env.query = "SELECT"                    \* cursor.description
    THEN IF env.fail = "fetch"
         THEN Outcome(TRUE, Exc, None, 0, 1, 0, 0, 1, 0, 0)
         ELSE IF env.fail = "close"
         THEN Outcome(TRUE, Exc, None, 0, 1, 0, 0, 1, 0, 0)
         ELSE Outcome(FALSE, "", Rows("rows"), 0, 1, 0, 0, 1, 1, 0)
    ELSE IF env.fail = "commit"
         THEN Outcome(TRUE, Exc, None, 0, 1, 0, 0, 1, 0, 0)
         ELSE IF env.fail = "close"
         THEN Outcome(TRUE, Exc, None, 0, 1, 0, 0, 1, 0, 0)
         ELSE Outcome(FALSE, "", StrVal("Query executed successfully."),
                      0, 1, 0, 0, 1, 1, 0)

\* the try block without its except clause
run_sql_uncaught(env) == run_sql_try(env)

\* run_sql: except Exception as e: return f"Error executing query: {e}"
run_sql(env) ==
    LET r == run_sql_try(env) IN
    IF r.raised
    THEN [r EXCEPT !.raised = FALSE, !.exc = "",
                   !.result = StrVal("Error executing query: " \o r.exc)]
    ELSE r

---------------------------------------------------------------------------
(* Tool Dispatcher: main_kuzu.py:45-115 *)

Tokens == {"ADDRESS_SEARCH", "GENERAL_QUERY", "NORMAL_QUERY"}

\* the calls of one dispatch that the environment can make fail
KuzuFails == {"none", "router", "open", "fetch", "parse", "embed", "lookup",
              "schema", "synth", "exec", "reply"}

\* branch 1, main_kuzu.py:70-94.  llm = 1 and opened = 1 on entry.
AddressSearch(env) ==
    IF env.fail = "fetch"
    THEN Outcome(TRUE, Exc, None, 1, 1, 0, 0, 1, 0, 0)
    ELSE IF Len(env.table) = 0                           \* addr_df.empty
    THEN Outcome(FALSE, "", StrVal("No listings found."), 1, 1, 0, 0, 1, 0, 0)
    ELSE IF env.fail = "parse"                           \* json.loads
    THEN Outcome(TRUE, Exc, None, 1, 1, 0, 0, 1, 0, 0)
    ELSE IF env.fail = "embed"
    THEN Outcome(TRUE, Exc, None, 1, 1, 1, 0, 1, 0, 0)
    ELSE LET best == np_argmax(Similarities(env.table, env.qemb))
             best_match_address == env.table[best].address
         IN  IF env.fail = "lookup"
             THEN Outcome(TRUE, Exc, None, 1, 2, 1, 0, 1, 0, best)
             ELSE Outcome(FALSE, "",
                          StrVal("| l.address | " \o best_match_address \o " |"),
                          1, 2, 1, 0, 1, 0, best)

\* branch 2, main_kuzu.py:97-105
GeneralQuery(env) ==
    LET s == kuzu_get_db_schema(env.fail = "schema") IN
    IF s.raised
    THEN Outcome(TRUE, s.exc, None, 1, 0, 0, 1, 1 + s.opened, 0, 0)
    ELSE IF env.fail = "synth"
    THEN Outcome(TRUE, Exc, None, 2, 0, 0, 1, 1 + s.opened, 0, 0)
    ELSE IF env.fail = "exec"                 \* malformed or failing Cypher
    THEN Outcome(TRUE, Exc, None, 2, 1, 0, 1, 1 + s.opened, 0, 0)
    ELSE Outcome(FALSE, "", StrVal("| result |"), 2, 1, 0, 1, 1 + s.opened, 0, 0)

\* branch 3, main_kuzu.py:108-111
NormalQuery(env) ==
    IF env.fail = "reply"
    THEN Outcome(TRUE, Exc, None, 2, 0, 0, 0, 1, 0, 0)
    ELSE Outcome(FALSE, "", StrVal("reply"), 2, 0, 0, 0, 1, 0, 0)

\* a fall-through that defaults to the general query
NoBranchDefaultsToGeneral(env) == GeneralQuery(env)

\* no branch matched: the function falls off its end and returns None
NoBranch(env) == Outcome(FALSE, "", None, 1, 0, 0, 0, 1, 0, 0)

\* the if / elif / elif chain of the try block, main_kuzu.py:68-111
DispatchTry(env) ==
    IF "ADDRESS_SEARCH" \in env.tokens THEN AddressSearch(env)
    ELSE IF "GENERAL_QUERY" \in env.tokens THEN GeneralQuery(env)
    ELSE IF "NORMAL_QUERY" \in env.tokens THEN NormalQuery(env)
    ELSE NoBranch(env)

\* main_kuzu.py:114-115
DispatchExcept(r) ==
    IF r.raised
    THEN [r EXCEPT !.raised = FALSE, !.exc = "",
                   !.result = StrVal("An error occurred within the tool: " \o r.exc)]
    ELSE r

\* query_real_estate_database: the router call (line 62) and the opening of
\* the store (lines 65-66) come before the try statement
query_real_estate_database(env) ==
    IF env.fail = "router"
    THEN Outcome(TRUE, Exc, None, 1, 0, 0, 0, 0, 0, 0)
    ELSE IF env.fail = "open"
    THEN Outcome(TRUE, Exc, None, 1, 0, 0, 0, 0, 0, 0)
    ELSE DispatchExcept(DispatchTry(env))

---------------------------------------------------------------------------
(* Messages: langchain_core.messages as used by the three files *)

HumanMessage(c) ==
    [type |-> "human", content |-> c, tool_calls |-> <<>>, tool_call_id |-> 0]
AIMessage(c, calls) ==
    [type |-> "ai", content |-> c, tool_calls |-> calls, tool_call_id |-> 0]
ToolMessage(c, id) ==
    [type |-> "tool", content |-> c, tool_calls |-> <<>>, tool_call_id |-> id]

Last(s) == s[Len(s)]

---------------------------------------------------------------------------
(* History conversion: app.py:118-123 *)

Missing == "<no such key>"      \* the dict has no entry under the key
NewQ == "q"                     \* the text of request.new_message

Entries ==
    {[role |-> "system", content |-> "sys"],
     [role |-> "user", content |-> "h"],
     [role |-> "user", content |-> NewQ],
     [role |-> "assistant", content |-> "a"],
     [role |-> Missing, content |-> "h"],
     [role |-> "user", content |-> Missing]}

Conversations == UNION {[1..n -> Entries] : n \in 0..MaxConv}

\* the for loop of app.py:119-123 over a list of dicts; msg['role'] and
\* msg['content'] raise KeyError on a dict without the key
RECURSIVE ConvertEntries(_)
ConvertEntries(seq) ==
    IF seq = <<>> THEN [raised |-> FALSE, out |-> <<>>]
    ELSE LET msg == Head(seq)
             rest == ConvertEntries(Tail(seq))
         IN  IF msg.role = Missing THEN [raised |-> TRUE, out |-> <<>>]
             ELSE IF msg.role = "user"
             THEN IF msg.content = Missing THEN [raised |-> TRUE, out |-> <<>>]
                  ELSE IF rest.raised THEN rest
                  ELSE [rest EXCEPT !.out = <<HumanMessage(msg.content)>> \o @]
             ELSE IF msg.role = "assistant"
             THEN IF msg.content = Missing THEN [raised |-> TRUE, out |-> <<>>]
                  ELSE IF rest.raised THEN rest
                  ELSE [rest EXCEPT !.out = <<AIMessage(msg.content, <<>>)>> \o @]
             ELSE rest

\* request.conversation[1:]
SliceFromOne(conv) == IF conv = <<>> THEN <<>> ELSE Tail(conv)

\* the list handed to both loops, app.py:118-123
ConvertHistory(conv) == ConvertEntries(SliceFromOne(conv))

---------------------------------------------------------------------------
(* One execution of a compiled graph: main.py:124-139, main_kuzu.py:161-167 *)

NoRun ==
    [store |-> "none", mode |-> "none", limit |-> 0, steps |-> 0,
     status |-> "idle", err |-> "", node |-> "none", msgs |-> <<>>,
     prompt |-> <<>>]

\* app.stream / app.invoke on {"messages": messages}; entry point "agent"
NewRun(store, mode, limit, input) ==
    [store |-> store, mode |-> mode, limit |-> limit, steps |-> 0,
     status |-> "running", err |-> "", node |-> "agent", msgs |-> input,
     prompt |-> <<>>]

\* a runner that allows one super-step more than configured
RecursionLimitReachedLate(steps, limit) == steps > limit

\* LangGraph stops a run that has used its recursion_limit super-steps
RecursionLimitReached(steps, limit) == steps >= limit

NoEnv == [tokens |-> {}, fail |-> "none", table |-> <<>>, qemb |-> <<1, 0>>,
          query |-> ""]
NoOut == Outcome(FALSE, "", None, 0, 0, 0, 0, 0, 0, 0)
NoAct == [tool |-> "none", calls |-> <<>>, env |-> NoEnv, out |-> NoOut,
          done |-> FALSE]

\* tool_calls[0] (sequences are 1-based here)
FirstToolCall(tool_calls) == tool_calls[1]

\* tool_calls[-1]
LastToolCall(tool_calls) == tool_calls[Len(tool_calls)]

\* main.py:96, main_kuzu.py:143: the request call_tool executes
SelectToolCall(tool_calls) == FirstToolCall(tool_calls)

\* an edge that finishes after every Decide step
should_continue_to_end(msgs) == "end"

\* should_continue, main.py:111-117, main_kuzu.py:148-152
should_continue(msgs) ==
    IF Len(Last(msgs).tool_calls) > 0 THEN "execute_tool" ELSE "end"

---------------------------------------------------------------------------
(* What the language model may answer in a Decide step *)

ToolName(store) ==
    IF store = "kuzu" THEN "query_real_estate_database" ELSE "run_sql"
PlainArgs(store) == IF store = "kuzu" THEN "question" ELSE "SELECT"
PlainResult(store) == IF store = "kuzu" THEN "| result |" ELSE "[rows]"

ToolCall(name, id, args) == [name |-> name, id |-> id, args |-> args]

\* call identifiers are unique in a conversation: position of the message
\* and position of the request in it
CallId(k, j) == 10 * k + j

ToolCallLists(store, k) ==
    LET t == ToolName(store) IN
    {<<>>,
     <<ToolCall(t, CallId(k, 1), PlainArgs(store))>>,
     <<ToolCall(t, CallId(k, 1), PlainArgs(store)),
       ToolCall(t, CallId(k, 2), "second")>>}
    \cup (IF store = "sqlite"
          THEN {<<ToolCall("other_tool", CallId(k, 1), "SELECT")>>,
                <<ToolCall(t, CallId(k, 1), "UPDATE")>>,
                <<ToolCall(t, CallId(k, 1), "BAD")>>}
          ELSE {})

IsPlain(m, store) ==
    CASE m.type = "human" -> TRUE
      [] m.type = "ai" ->
            \/ m.tool_calls = <<>>
            \/ /\ Len(m.tool_calls) = 1
               /\ m.tool_calls[1].name = ToolName(store)
               /\ m.tool_calls[1].args = PlainArgs(store)
      [] OTHER -> m.content = PlainResult(store)

\* after the leading round-trips the environment keeps to the plain answers:
\* a final answer or one well-formed request, and the plain tool result
MayAppend(r, m) == IsPlain(m, r.store) \/ r.steps < 2 * MaxRichTrips

Raise(r, e) == [r EXCEPT !.status = "error", !.err = e]

NoResponse == [kind |-> "none", text |-> ""]

\* app.py:147
ErrorResponse(e) == [kind |-> "error", text |-> "Error occurred: " \o e]

\* a handler without the except clause
CatchNothing(r) == UNCHANGED <<pc, response>>

\* app.py:146-147: an exception raised by a loop execution inside the try
\* block ends the handler with the error response
Catch(r) ==
    IF r.status = "error"
    THEN pc' = "done" /\ response' = ErrorResponse(r.err)
    ELSE UNCHANGED <<pc, response>>

---------------------------------------------------------------------------
(* Decide: call_model, main.py:68-89 and main_kuzu.py:123-138 *)

\* the store fails under get_db_schema, or the model call fails, or the model
\* answers; strictEnd: the runner counts a run that reaches END in its last
\* allowed super-step as out of steps (it depends on the LangGraph release)
DecideInputs(r) ==
    {[schemaFails |-> TRUE, llmFails |-> FALSE, strictEnd |-> FALSE,
      tool_calls |-> <<>>],
     [schemaFails |-> FALSE, llmFails |-> TRUE, strictEnd |-> FALSE,
      tool_calls |-> <<>>]}
    \cup [schemaFails : {FALSE}, llmFails : {FALSE},
          strictEnd : IF r.steps + 1 >= r.limit THEN BOOLEAN ELSE {FALSE},
          tool_calls : ToolCallLists(r.store, Len(r.msgs) + 1)]

\* a call_model that invokes the model on the state alone
messages_without_system_prompt(r) == r.msgs

\* the message list the model is invoked with: one instruction, then the state
messages_with_system_prompt(r) == <<HumanMessage("system_prompt")>> \o r.msgs

\* run.prompt is the list llm_with_tools.invoke was last called with
call_model(r, in) ==
    LET s == IF r.store = "kuzu" THEN kuzu_get_db_schema(in.schemaFails)
             ELSE sqlite_get_db_schema(in.schemaFails)
        content == IF in.tool_calls = <<>> THEN "answer" ELSE ""
        appended == Append(r.msgs, AIMessage(content, in.tool_calls))
        next == should_continue(appended)
        steps == r.steps + 1
        q == [r EXCEPT !.prompt = messages_with_system_prompt(r)]
    IN  IF s.raised THEN Raise(r, "get_db_schema: " \o s.exc)
        ELSE IF in.llmFails THEN Raise(q, "llm: " \o Exc)
        ELSE IF next = "end"
        THEN IF RecursionLimitReached(steps, r.limit) /\ in.strictEnd
             THEN [q EXCEPT !.msgs = appended, !.steps = steps, !.node = next,
                            !.status = "error", !.err = "GraphRecursionError"]
             ELSE [q EXCEPT !.msgs = appended, !.steps = steps, !.node = next,
                            !.status = "done"]
        ELSE [q EXCEPT !.msgs = appended, !.steps = steps, !.node = next]

Decide ==
    /\ pc = "loop" /\ run.status = "running" /\ run.node = "agent"
    /\ ~RecursionLimitReached(run.steps, run.limit)
    /\ \E in \in DecideInputs(run) :
          LET r == call_model(run, in) IN
          /\ r.status # "error" => MayAppend(run, Last(r.msgs))
          /\ run' = r
          /\ Catch(r)
    /\ act' = NoAct
    /\ UNCHANGED <<conversation, new_message, messages,
                   kuzu_response, sqlite_response, reconcile_calls>>

---------------------------------------------------------------------------
(* Act: call_tool, main.py:91-108 and main_kuzu.py:141-146 *)

Vecs == {v \in (-1..MaxComp) \X (-1..MaxComp) : v # <<0, 0>>}

\* the rows of MATCH (l:Listing) RETURN l.address, l.address_embedding
TableOf(embs) ==
    [i \in 1..Len(embs) |-> [address |-> "addr" \o ToString(i), emb |-> embs[i]]]

Tables == {TableOf(e) : e \in UNION {[1..n -> Vecs] : n \in 0..MaxCand}}

LoopTable == TableOf(<<<<1, 0>>, <<0, 1>>>>)

\* what the environment may do during a dispatch made inside a loop
\* a failure of a call the dispatch never issues is no failure at all
Reached(e) ==
    \/ e.fail = "none"
    \/ query_real_estate_database(e)
          # query_real_estate_database([e EXCEPT !.fail = "none"])

RouteEnvs ==
    {e \in [tokens : SUBSET Tokens, fail : KuzuFails,
            table : {<<>>, LoopTable}, qemb : {<<2, 1>>}, query : {""}] :
        /\ Reached(e)
        /\ e.fail = "router" => e.tokens = {}
        /\ "ADDRESS_SEARCH" \notin e.tokens => e.table = <<>>}

SqlEnvs ==
    [tokens : {{}}, fail : SqlFails, table : {<<>>}, qemb : {<<1, 0>>},
     query : {""}]

ActEnvs(store) == IF store = "kuzu" THEN RouteEnvs ELSE SqlEnvs

\* a call_tool that invokes the loop's tool whatever name is requested
ToolForAnyName(store, tool_name) == ToolName(store)

\* the tool call_tool invokes: main_kuzu.py:144 invokes its one tool without
\* looking at the name; main.py:101-104 invokes run_sql on that name only
ToolFor(store, tool_name) ==
    IF store = "kuzu" THEN "query_real_estate_database"
    ELSE IF tool_name = "run_sql" THEN "run_sql"
    ELSE "none"

\* the result and the frame of one call_tool
call_tool(r, env) ==
    LET last_message == Last(r.msgs)
        tool_call == SelectToolCall(last_message.tool_calls)
        e == IF r.store = "kuzu" THEN env
             ELSE [env EXCEPT !.query = tool_call.args]
        tool == ToolFor(r.store, tool_call.name)
        out == IF tool = "query_real_estate_database"
               THEN query_real_estate_database(e)
               ELSE IF tool = "run_sql" THEN run_sql(e)
               ELSE [NoOut EXCEPT !.result = StrVal("Error: Unknown tool.")]
        tool_message == ToolMessage(PyStr(out.result), tool_call.id)
        frame == [tool |-> tool, calls |-> <<tool_call.id>>, env |-> e,
                  out |-> out, done |-> TRUE]
    IN  IF out.raised
        THEN [run |-> Raise(r, "tool: " \o out.exc), act |-> frame]
        ELSE [run |-> [r EXCEPT !.msgs = Append(@, tool_message),
                                !.steps = @ + 1, !.node = "agent"],
              act |-> frame]

Act ==
    /\ pc = "loop" /\ run.status = "running" /\ run.node = "execute_tool"
    /\ ~RecursionLimitReached(run.steps, run.limit)
    /\ \E env \in ActEnvs(run.store) :
          LET c == call_tool(run, env) IN
          /\ c.run.status # "error" => MayAppend(run, Last(c.run.msgs))
          /\ run' = c.run
          /\ act' = c.act
          /\ Catch(c.run)
    /\ UNCHANGED <<conversation, new_message, messages,
                   kuzu_response, sqlite_response, reconcile_calls>>

\* the runner refuses the next super-step: GraphRecursionError
OutOfSteps ==
    /\ pc = "loop" /\ run.status = "running"
    /\ RecursionLimitReached(run.steps, run.limit)
    /\ run' = Raise(run, "GraphRecursionError")
    /\ Catch(run')
    /\ UNCHANGED <<conversation, new_message, messages, act,
                   kuzu_response, sqlite_response, reconcile_calls>>

---------------------------------------------------------------------------
(* Response Aggregator: chat_with_llm, app.py:112-148 *)

Unbound == "<unbound>"
\* result.content.strip(), app.py:145
Strip(c) == CASE c = " merged " -> "merged" [] c = "  " -> "" [] OTHER -> c

\* final_state['messages'][-1].content if final_state['messages'] else ...
FinalAnswer(msgs) ==
    IF Len(msgs) > 0 THEN Last(msgs).content ELSE "No response generated."

\* app.py:118-125: build the list, then start streaming the graph-store loop.
\* The for loop reads the history to its end; nothing reads it afterwards.
Convert ==
    /\ pc = "request"
    /\ LET c == ConvertHistory(conversation) IN
       IF c.raised
       THEN /\ pc' = "escaped"           \* KeyError leaves the handler
            /\ UNCHANGED <<conversation, messages, run>>
       ELSE /\ conversation' = <<>>
            /\ messages' = c.out
            /\ run' = NewRun("kuzu", "stream", StreamLimit, c.out)
            /\ pc' = "loop"
    /\ UNCHANGED <<new_message, act, kuzu_response, sqlite_response,
                   reconcile_calls, response>>

\* a handler that reconciles as soon as the graph-store answer is collected
SequelSkipsRowStore(r) ==
    IF r.mode = "stream" THEN "invoke" ELSE "reconcile"

\* the statement of app.py:125-144 that follows a finished execution: the
\* invoke of the same graph (131, 140), the row-store loop (134), or the
\* reconciliation (142-144)
Sequel(r) ==
    IF r.mode = "stream" THEN "invoke"
    ELSE IF r.store = "kuzu" THEN "row_store"
    ELSE "reconcile"

\* a handler that hands the next execution the conversation of the last one
LoopInputCarriedOver(list, r) == r.msgs

\* {"messages": messages} at app.py:131, 134, 140: every execution is handed
\* the list built at app.py:118-123; the graph's reducer (operator.add) and
\* call_model build new lists and leave that list as it was
LoopInput(list, r) == list

\* app.py:126-141: a finished execution is followed by the next one
Advance ==
    /\ pc = "loop" /\ run.status = "done"
    /\ act' = NoAct
    /\ IF Sequel(run) = "invoke"
       THEN /\ run' = NewRun(run.store, "invoke", DefaultLimit,
                              LoopInput(messages, run))
            /\ UNCHANGED <<pc, kuzu_response, sqlite_response>>
       ELSE IF Sequel(run) = "row_store"
       THEN /\ kuzu_response' = FinalAnswer(run.msgs)
            /\ run' = NewRun("sqlite", "stream", StreamLimit,
                              LoopInput(messages, run))
            /\ UNCHANGED <<pc, sqlite_response>>
       ELSE /\ sqlite_response' = FinalAnswer(run.msgs)
            /\ pc' = "reconcile"
            /\ UNCHANGED <<run, kuzu_response>>
    /\ UNCHANGED <<conversation, new_message, messages, reconcile_calls,
                   response>>

\* app.py:142-148
Reconcile ==
    /\ pc = "reconcile"
    /\ \E llmFails \in BOOLEAN, content \in {"merged", " merged ", "  "} :
          response' = IF llmFails THEN ErrorResponse("llm: " \o Exc)
                      ELSE [kind |-> "answer", text |-> Strip(content)]
    /\ reconcile_calls' = reconcile_calls + 1
    /\ pc' = "done"
    /\ UNCHANGED <<conversation, new_message, messages, run, act,
                   kuzu_response, sqlite_response>>

Init ==
    /\ pc = "request"
    /\ conversation \in Conversations
    /\ new_message = NewQ
    /\ messages = <<>>
    /\ run = NoRun
    /\ act = NoAct
    /\ kuzu_response = Unbound
    /\ sqlite_response = Unbound
    /\ reconcile_calls = 0
    /\ response = NoResponse

Next == Convert \/ Decide \/ Act \/ OutOfSteps \/ Advance \/ Reconcile

Spec == Init /\ [][Next]_vars

---------------------------------------------------------------------------
(* The two tools on their own: every environment of one invocation *)

ResolveEnvs ==
    [tokens : {{"ADDRESS_SEARCH"}}, fail : {"none"}, table : Tables,
     qemb : Vecs, query : {""}]

DispatchEnvs ==
    [tokens : SUBSET Tokens, fail : KuzuFails, table : {<<>>, LoopTable},
     qemb : {<<2, 1>>}, query : {""}]
    \cup ResolveEnvs

RunSqlEnvs ==
    [tokens : {{}}, fail : SqlFails, table : {<<>>}, qemb : {<<1, 0>>},
     query : Queries]

Pending(tool, env) ==
    [tool |-> tool, calls |-> <<>>, env |-> env, out |-> NoOut, done |-> FALSE]

ToolInit ==
    /\ pc = "tool"
    /\ act \in {Pending("query_real_estate_database", e) : e \in DispatchEnvs}
               \cup {Pending("run_sql", e) : e \in RunSqlEnvs}
    /\ conversation = <<>>
    /\ new_message = NewQ
    /\ messages = <<>>
    /\ run = NoRun
    /\ kuzu_response = Unbound
    /\ sqlite_response = Unbound
    /\ reconcile_calls = 0
    /\ response = NoResponse

InvokeDispatcher ==
    /\ pc = "tool" /\ act.tool = "query_real_estate_database" /\ ~act.done
    /\ act' = [act EXCEPT !.out = query_real_estate_database(act.env),
                          !.done = TRUE]
    /\ UNCHANGED <<pc, conversation, new_message, messages, run,
                   kuzu_response, sqlite_response, reconcile_calls, response>>

InvokeRunSql ==
    /\ pc = "tool" /\ act.tool = "run_sql" /\ ~act.done
    /\ act' = [act EXCEPT !.out = run_sql(act.env), !.done = TRUE]
    /\ UNCHANGED <<pc, conversation, new_message, messages, run,
                   kuzu_response, sqlite_response, reconcile_calls, response>>

ToolNext == InvokeDispatcher \/ InvokeRunSql

ToolSpec == ToolInit /\ [][ToolNext]_vars

---------------------------------------------------------------------------
(* Properties *)

InLoop == run.store # "none"

\* the messages the execution in progress has appended to its input
Appended(r) == SubSeq(r.msgs, Len(messages) + 1, Len(r.msgs))
ToolResults(r) == {i \in 1..Len(Appended(r)) : Appended(r)[i].type = "tool"}
Requests(r) ==
    {i \in 1..Len(Appended(r)) :
        Appended(r)[i].type = "ai" /\ Appended(r)[i].tool_calls # <<>>}

\* C1: an Agent Loop execution never runs more super-steps than its
\* recursion limit, each super-step appends one message, so that its
\* Decide/Act round-trips stay within the limit; a GraphRecursionError is
\* raised exactly when the limit-th super-step has run, and an execution
\* that has used its limit without reaching END runs no further step.
C1_LoopStopsAtRecursionLimit ==
    InLoop =>
        /\ run.limit = IF run.mode = "stream" THEN StreamLimit ELSE DefaultLimit
        /\ run.steps <= run.limit
        /\ Len(run.msgs) = Len(messages) + run.steps
        /\ Cardinality(ToolResults(run)) <= run.limit
        /\ Cardinality(ToolResults(run)) = run.steps \div 2
        /\ run.err = "GraphRecursionError" => run.steps = run.limit
        /\ (run.steps = run.limit /\ run.node # "end")
              => run.status \in {"running", "error"}

\* a streamed execution whose model asked for a tool in every Decide step
\* was stopped after exactly StreamLimit super-steps
C1_Witness ==
    /\ run.mode = "stream" /\ run.status = "error"
    /\ run.err = "GraphRecursionError"
    /\ run.steps = StreamLimit
    /\ \A i \in 1..Len(Appended(run)) :
          Appended(run)[i].type = "ai" => Appended(run)[i].tool_calls # <<>>
    /\ Cardinality(Requests(run)) = 5
    /\ Cardinality(ToolResults(run)) = 5

\* C2: no exception escapes chat_with_llm; an exception raised anywhere in
\* the pipeline ends in a returned response with a non-empty error text.
C2_AggregatorNeverFails ==
    /\ pc # "escaped"
    /\ (pc = "done" /\ run.status = "error")
          => (response.kind = "error" /\ response.text # "")

\* C3: an invocation of query_real_estate_database never raises into the
\* Agent Loop: every failure of one of its steps is returned as a string.
C3_DispatcherNeverRaises ==
    (act.done /\ act.tool = "query_real_estate_database")
        => /\ ~act.out.raised
           /\ run.err # "tool: " \o Exc

\* the engine fails somewhere in the call
EngineFails(env) ==
    \/ env.fail \in {"connect", "execute", "close"}
    \/ env.query = "BAD"
    \/ env.fail = "fetch" /\ env.query = "SELECT"
    \/ env.fail = "commit" /\ env.query = "UPDATE"

\* C4: run_sql never raises; it returns the rows, or the confirmation for a
\* query without projection, or the error string when the engine failed.
C4_RunSqlNeverRaises ==
    (act.done /\ act.tool = "run_sql") =>
        /\ ~act.out.raised
        /\ act.out.result =
              IF EngineFails(act.env)
              THEN StrVal("Error executing query: " \o Exc)
              ELSE IF act.env.query = "SELECT" THEN Rows("rows")
              ELSE StrVal("Query executed successfully.")

\* a syntactically invalid query came back as the error string
C4_Witness ==
    /\ act.done /\ act.tool = "run_sql"
    /\ act.env.query = "BAD" /\ act.env.fail = "none"
    /\ act.out.result = StrVal("Error executing query: " \o Exc)

\* the user and assistant messages of a history, in order
RECURSIVE Kept(_)
Kept(conv) ==
    IF conv = <<>> THEN <<>>
    ELSE LET m == Head(conv) IN
         (IF m.role = "user" THEN <<HumanMessage(m.content)>>
          ELSE IF m.role = "assistant" THEN <<AIMessage(m.content, <<>>)>>
          ELSE <<>>) \o Kept(Tail(conv))

\* C5: every loop execution starts from all prior user and assistant
\* messages followed by the new human question.
C5_LoopsStartFromHistoryPlusQuestion ==
    /\ [](pc = "loop" /\ run.steps = 0
            => /\ run.msgs = messages
               /\ Len(run.msgs) > 0
               /\ Last(run.msgs) = HumanMessage(new_message))
    /\ [][pc = "request" /\ pc' = "loop"
            => messages' = Kept(conversation) \o <<HumanMessage(new_message)>>]_vars

\* the execution has used its recursion limit without a final answer
LimitHitUnfinished == InLoop /\ run.steps = run.limit /\ run.node # "end"

Acted == IF act.out.raised THEN Last(run.msgs)
         ELSE run.msgs[Len(run.msgs) - 1]

\* C7: an Act step executes the first tool-call request of the latest
\* assistant message and no other: one invocation, one tool-result message
\* appended, keyed by the first request's call identifier.
C7_OnlyFirstToolCallExecuted ==
    (InLoop /\ act.done) =>
        /\ Acted.type = "ai" /\ Len(Acted.tool_calls) >= 1
        /\ act.calls = <<Acted.tool_calls[1].id>>
        /\ act.out.raised <=> Last(run.msgs).type # "tool"
        /\ ~act.out.raised =>
              /\ Last(run.msgs).type = "tool"
              /\ Last(run.msgs).tool_call_id = Acted.tool_calls[1].id
              /\ Len(run.msgs) = Len(messages) + run.steps
        /\ \A j \in 2..Len(Acted.tool_calls) :
              /\ Acted.tool_calls[j].id # act.calls[1]
              /\ \A i \in 1..Len(run.msgs) :
                    run.msgs[i].tool_call_id # Acted.tool_calls[j].id

\* the row-store loop acted on an assistant message with two requests
C7_Witness ==
    /\ InLoop /\ act.done /\ run.store = "sqlite" /\ run.status = "running"
    /\ Len(Acted.tool_calls) = 2
    /\ Acted.tool_calls[1].id # Acted.tool_calls[2].id
    /\ Last(run.msgs) = ToolMessage("[rows]", Acted.tool_calls[1].id)

Dispatched == act.done /\ act.tool = "query_real_estate_database"

\* C8: a router output holding none of the three tokens matches no branch:
\* no store query, no embedding call, no language-model call after the
\* classification, and nothing returned (neither a text nor an error string).
C8_NoTokenNoResult ==
    (Dispatched /\ act.env.tokens \cap Tokens = {} /\ act.env.fail # "router")
        => /\ act.out.result = None
           /\ act.out.storeQueries = 0
           /\ act.out.embedCalls = 0
           /\ act.out.schemaCalls = 0
           /\ act.out.llmCalls = 1
           /\ act.out.raised => act.env.fail = "open"

C8_Witness ==
    /\ Dispatched /\ act.env.tokens = {} /\ act.env.fail = "none"
    /\ ~act.out.raised /\ act.out.result = None /\ act.out.llmCalls = 1

\* cos(e1, q) > cos(e2, q), cosine similarity being the dot product divided
\* by the product of the L2 norms (the norm of q is common to both sides)
CosineGt(e1, e2, q) ==
    LET a == Dot(e1, q)
        b == Dot(e2, q)
        n1 == NormSq(e1)
        n2 == NormSq(e2)
    IN  \/ a > 0 /\ b <= 0
        \/ a = 0 /\ b < 0
        \/ a > 0 /\ b > 0 /\ a * a * n2 > b * b * n1
        \/ a < 0 /\ b < 0 /\ a * a * n2 < b * b * n1

AddressBranch ==
    /\ Dispatched /\ "ADDRESS_SEARCH" \in act.env.tokens
    /\ act.env.fail \notin {"router", "open", "fetch"}

\* C9: in the ADDRESS_SEARCH branch the resolved key is that of the first
\* candidate of maximal cosine similarity to the question embedding; with an
\* empty table the result is "No listings found." and no embedding is asked.
C9_ResolverPicksFirstMaximum ==
    AddressBranch =>
        LET t == act.env.table
            q == act.env.qemb
            b == act.out.best
        IN  IF Len(t) = 0
            THEN /\ act.out.result = StrVal("No listings found.")
                 /\ act.out.embedCalls = 0
                 /\ b = 0
            ELSE act.env.fail \notin {"parse", "embed"} =>
                 /\ b \in 1..Len(t)
                 /\ act.out.embedCalls = 1
                 /\ \A j \in 1..Len(t) : ~CosineGt(t[j].emb, t[b].emb, q)
                 /\ \A j \in 1..(b - 1) : CosineGt(t[b].emb, t[j].emb, q)
                 /\ act.env.fail = "none" =>
                       act.out.result =
                           StrVal("| l.address | " \o t[b].address \o " |")

\* two different candidates of equal, maximal similarity: the first is taken
C9_Witness ==
    /\ AddressBranch /\ act.env.fail = "none"
    /\ Len(act.env.table) = 2
    /\ act.env.table[1].emb # act.env.table[2].emb
    /\ ~CosineGt(act.env.table[1].emb, act.env.table[2].emb, act.env.qemb)
    /\ ~CosineGt(act.env.table[2].emb, act.env.table[1].emb, act.env.qemb)
    /\ act.out.best = 1
    /\ act.out.result = StrVal("| l.address | addr1 |")

\* C10: get_db_schema never throws: a Decide step is never aborted by a
\* failing introspection, and a GENERAL_QUERY dispatch goes on to synthesize
\* its query from the description of the failure.
C10_IntrospectorNeverThrows ==
    /\ ~(run.status = "error" /\ run.err = "get_db_schema: " \o Exc)
    /\ (Dispatched /\ act.env.fail = "schema" /\ act.out.schemaCalls = 1)
          => act.out.llmCalls = 2

\* C11: the reconciliation call is made only after both loops have finished
\* and both final answers are collected; it is made exactly once on a
\* request that returns an answer, and never when a loop execution failed or
\* the handler was left by an exception before it.
C11_ReconcileOnceAfterBothLoops ==
    /\ reconcile_calls \in 0..1
    /\ reconcile_calls = 1 =>
          /\ kuzu_response # Unbound /\ sqlite_response # Unbound
          /\ run.store = "sqlite" /\ run.mode = "invoke"
          /\ run.status = "done" /\ run.node = "end"
          /\ pc = "done"
    /\ pc = "reconcile" =>
          /\ kuzu_response # Unbound /\ sqlite_response # Unbound
          /\ run.status = "done"
    /\ (pc = "done" /\ response.kind = "answer") => reconcile_calls = 1
    /\ (run.status = "error" \/ pc = "escaped") => reconcile_calls = 0

\* a request answered after one reconciliation call over both answers
C11_Witness ==
    /\ pc = "done" /\ response = [kind |-> "answer", text |-> "merged"]
    /\ reconcile_calls = 1
    /\ kuzu_response = "answer" /\ sqlite_response = "answer"

\* the dispatch took the NORMAL_QUERY branch
NormalBranch ==
    /\ Dispatched /\ act.env.fail # "router"
    /\ "NORMAL_QUERY" \in act.env.tokens
    /\ "ADDRESS_SEARCH" \notin act.env.tokens
    /\ "GENERAL_QUERY" \notin act.env.tokens

\* C12: a dispatch classified NORMAL_QUERY touches no data: after the
\* classification no store is opened, no store query is run, no schema is
\* read and no embedding is asked; its only call is one language-model call.
C12_NormalQueryBypassesDataAccess ==
    NormalBranch =>
        /\ act.out.opened = 0
        /\ act.out.storeQueries = 0
        /\ act.out.schemaCalls = 0
        /\ act.out.embedCalls = 0
        /\ act.out.llmCalls = 2

\* C13: every loop execution of a chat request runs under the configured
\* recursion limit of 10 and never takes more super-steps than that; in
\* particular the execution whose last message becomes a store's answer.
C13_EveryExecutionWithinConfiguredLimit ==
    InLoop =>
        /\ run.steps <= StreamLimit
        /\ (run.steps = StreamLimit /\ run.node # "end")
              => run.status \in {"running", "error"}

\* C14 as stated: the loops share no state and neither depends on the other
\* having run: the list handed to them is never changed, and every request
\* that has returned ran the row-store loop, whatever the graph-store loop did.
C14_LoopsIndependentUnordered ==
    /\ InLoop => SubSeq(run.msgs, 1, Len(messages)) = messages
    /\ pc = "done" => run.store = "sqlite"

\* C14 amended: the loops share no state (each execution starts from the
\* unchanged list and holds no message of the other loop), but they run in
\* order: the row-store loop starts only once the graph-store answer is
\* collected, and a failure of the graph-store loop ends the request before
\* the row-store loop has started.
C14_LoopsShareNoStateButRunInOrder ==
    /\ [](InLoop =>
            /\ SubSeq(run.msgs, 1, Len(messages)) = messages
            /\ run.steps = 0 => run.msgs = messages
            /\ \A i \in 1..Len(Appended(run)) :
                  \A j \in 1..Len(Appended(run)[i].tool_calls) :
                     Appended(run)[i].tool_calls[j].name
                        \in {ToolName(run.store), "other_tool"}
            /\ run.store = "sqlite" => kuzu_response # Unbound
            /\ run.store = "kuzu" =>
                  /\ kuzu_response = Unbound /\ sqlite_response = Unbound
                  /\ run.status = "error" => (pc = "done" /\ reconcile_calls = 0))
    /\ [][/\ pc # "request" => messages' = messages
          /\ kuzu_response # Unbound => kuzu_response' = kuzu_response
          /\ pc = "done" => pc' = "done"]_vars

\* the graph-store loop failed in its tool and the request returned without
\* the row-store loop having started
C14_Witness ==
    /\ pc = "done" /\ run.store = "kuzu" /\ run.status = "error"
    /\ run.err = "tool: " \o Exc
    /\ messages # <<>> /\ SubSeq(run.msgs, 1, Len(messages)) = messages
    /\ sqlite_response = Unbound /\ response.kind = "error"

\* the node the graph's edges lead to after the last message of r
NodeAfter(r) ==
    IF r.steps = 0 THEN "agent"
    ELSE LET m == Last(r.msgs) IN
         IF m.type = "tool" THEN "agent"
         ELSE IF m.tool_calls # <<>> THEN "execute_tool"
         ELSE "end"

\* C15: Decide and Act strictly alternate.  After a Decide step the loop is
\* at Finish if and only if the assistant message just appended carries no
\* tool-call request, otherwise at Act; after an Act step it is at Decide;
\* every tool-result message directly follows an assistant message with a
\* request and carries the identifier of that message's first request.
C15_DecideActAlternate ==
    /\ [](InLoop =>
            /\ run.node = NodeAfter(run)
            /\ run.status = "done" =>
                  (run.node = "end" /\ Last(run.msgs).type = "ai"
                                   /\ Last(run.msgs).tool_calls = <<>>)
            /\ \A i \in 1..Len(Appended(run)) :
                  LET m == Appended(run)[i] IN
                  /\ m.type = IF i % 2 = 1 THEN "ai" ELSE "tool"
                  /\ (m.type = "ai" /\ i < Len(Appended(run)))
                        => m.tool_calls # <<>>
            /\ \A i \in 1..Len(run.msgs) :
                  run.msgs[i].type = "tool" =>
                     /\ i > 1
                     /\ run.msgs[i - 1].type = "ai"
                     /\ run.msgs[i - 1].tool_calls # <<>>
                     /\ run.msgs[i].tool_call_id
                           = run.msgs[i - 1].tool_calls[1].id)
    /\ [][(InLoop /\ run'.store = run.store /\ run'.mode = run.mode
             /\ run'.steps = run.steps + 1)
            => /\ run.node = "agent" =>
                     /\ run'.node \in {"end", "execute_tool"}
                     /\ run'.node = "end" <=> Last(run'.msgs).tool_calls = <<>>
               /\ run.node = "execute_tool" => run'.node = "agent"
               /\ run.node # "end"]_vars

\* a loop that decided, acted, and decided again to finish
C15_Witness ==
    /\ InLoop /\ run.status = "done" /\ run.steps = 3
    /\ Appended(run)[1].type = "ai" /\ Appended(run)[1].tool_calls # <<>>
    /\ Appended(run)[2].type = "tool"
    /\ Appended(run)[2].tool_call_id = Appended(run)[1].tool_calls[1].id
    /\ Appended(run)[3].type = "ai" /\ Appended(run)[3].tool_calls = <<>>

\* C16: a finished executor or dispatcher call has closed every store
\* connection it opened, whether it returned a result or an error string.
C16_ConnectionsClosedOnReturn ==
    (act.done /\ act.tool \in {"run_sql", "query_real_estate_database"}
              /\ ~act.out.raised)
        => act.out.closed = act.out.opened

Instruction == HumanMessage("system_prompt")

IsPrefix(a, b) == Len(a) <= Len(b) /\ SubSeq(b, 1, Len(a)) = a

\* C17: the conversation of a loop is append-only: every Decide or Act step
\* appends exactly one message and leaves the earlier ones as they were; the
\* instruction put before the model input is never part of the state, and
\* every model call is given exactly one instruction followed by the
\* messages accumulated so far.
C17_ConversationAppendOnly ==
    /\ [](InLoop =>
            /\ Len(run.msgs) = Len(messages) + run.steps
            /\ IsPrefix(messages, run.msgs)
            /\ \A i \in 1..Len(run.msgs) : run.msgs[i] # Instruction
            /\ run.prompt # <<>> =>
                  /\ run.prompt[1] = Instruction
                  /\ Cardinality({i \in 1..Len(run.prompt) :
                                     run.prompt[i] = Instruction}) = 1
                  /\ IsPrefix(Tail(run.prompt), run.msgs)
                  /\ IsPrefix(messages, Tail(run.prompt)))
    /\ [][(InLoop /\ run'.store = run.store /\ run'.mode = run.mode)
            => /\ IsPrefix(run.msgs, run'.msgs)
               /\ Len(run'.msgs) = Len(run.msgs) + (run'.steps - run.steps)
               /\ run'.steps \in {run.steps, run.steps + 1}
               /\ (run'.steps = run.steps + 1 /\ run.node = "agent")
                     => run'.prompt = <<Instruction>> \o run.msgs
               /\ run.node = "execute_tool" => run'.prompt = run.prompt]_vars

\* the third Decide step of an execution: its model call saw one instruction
\* followed by the history and the four messages appended before it
C17_Witness ==
    /\ InLoop /\ run.steps = 5 /\ messages # <<>>
    /\ Last(run.msgs).type = "ai"
    /\ run.prompt = <<Instruction>> \o SubSeq(run.msgs, 1, Len(run.msgs) - 1)
    /\ Len(run.prompt) = Len(messages) + 5

\* the last Act step of the row-store loop worked on a request for a tool
\* that is not run_sql
UnknownToolActed ==
    /\ InLoop /\ act.done /\ run.store = "sqlite"
    /\ Acted.type = "ai" /\ Acted.tool_calls # <<>>
    /\ Acted.tool_calls[1].name # "run_sql"

\* C18: in the row-store loop an Act step whose first request names another
\* tool than run_sql runs no query, appends the tool result
\* 'Error: Unknown tool.' under that request's identifier, and leads back to
\* Decide.
C18_UnknownToolAnswered ==
    UnknownToolActed =>
        /\ act.tool = "none"
        /\ ~act.out.raised
        /\ act.out.storeQueries = 0 /\ act.out.opened = 0
        /\ Last(run.msgs)
              = ToolMessage("Error: Unknown tool.", Acted.tool_calls[1].id)
        /\ Len(run.msgs) = Len(messages) + run.steps
        /\ run.node = "agent"
        /\ run.err \in {"", "GraphRecursionError"}

\* the loop went on to its next Decide step after the unknown-tool result
C18_Witness ==
    /\ UnknownToolActed /\ run.status = "running" /\ run.node = "agent"
    /\ Acted.tool_calls[1].name = "other_tool"
    /\ Last(run.msgs).content = "Error: Unknown tool."

====
